---- MODULE Spec2Model ----
(***************************************************************************)
(* Hourly join counters of boredphoton.                                    *)
(*                                                                         *)
(* The repository holds two revisions of the keyed counter store:          *)
(*   src/main.rs   GuildJoinsMap over RwLock<GuildJoins>, with an atomic   *)
(*                 fast path (GuildJoins::add) and an exclusive slow path  *)
(*                 (GuildJoins::add_mut); persisted by finalize only.      *)
(*   src/joins.rs  GuildJoinsMap over Mutex<GuildJoins>; every call goes   *)
(*                 through update_to_latest_hour, which saves on rollover. *)
(* The variable rev says which revision runs; everything else is shared:   *)
(* the wall clock, the map, the data directory, the handler threads.       *)
(***************************************************************************)
EXTENDS Integers, Sequences, FiniteSets, TLC

\* ------------------------------------------------------------ constants
JOINS_BACKLOG_SIZE == 720
BACKLOG_SIZE == 720

\* Option<u32>: None is -1, Some(v) is v. Counts are u32; the model's calls add
\* at most MaxCalls * MaxDelta, far from where a u32 wraps.
None == -1
Some(v) == v

\* --------------------------------------------------------------- bounds
NumThreads == 2
NumKeys == 2
MaxDelta == 1
MaxCalls == 3
MaxFlush == 1
MaxTicks == 2
MaxBack == 1
MaxFails == 1
MaxRestarts == 1
MaxEnv == 2
StartHour == 1
ShortGap == 2
LongIdle == 1000

Threads == 1..NumThreads
Keys == 1..NumKeys
Deltas == 0..MaxDelta
\* hours the clock may advance by between two observations
Jumps == {1, ShortGap, BACKLOG_SIZE, LongIdle}

VARIABLES
    rev,        \* "main" | "joins": the revision that runs
    now,        \* current_hour(): the wall clock in hours
    map,        \* GuildJoinsMap.lock's HashMap: key -> GuildJoins
    disk,       \* data_dir/<key>.json for every key
    mapReaders, \* threads holding the ShardedLock for reading
    mapWriter,  \* the thread holding the ShardedLock for writing, or 0
    mapPoison,  \* the ShardedLock is poisoned
    gjHolder,   \* per key: the thread holding the RwLock for writing / the Mutex, or 0
    gjPoison,   \* per key: the RwLock / Mutex is poisoned
    thr,        \* per thread: where it is in its call
    last,       \* the call that ended last since the clock changed, and its result
    flushTodo,  \* keys the running finalize()/save() has not visited yet
    hour,       \* per key, since the clock last changed: deltas added (history variable)
    budget      \* how often the environment has acted (bounds the model)

vars == <<rev, now, map, disk, mapReaders, mapWriter, mapPoison, gjHolder,
          gjPoison, thr, last, flushTodo, hour, budget>>

\* ----------------------------------------------------------- the counter
NoneLog == [i \in 1..BACKLOG_SIZE |-> None]

\* main.rs GuildJoins::new's closure / joins.rs GuildJoins::new
Fresh(h) == [current_hour |-> h, log |-> NoneLog, current |-> 0]

\* A JSON value of the log array, as a number: null is JsonNull, the number v
\* is JsonNumber(v).
JsonNull == 0
JsonNumber(v) == v + 1
JsonValue(n) == n - 1

\* serde_json::to_writer of a GuildJoins: the document {"current_hour": ..,
\* "log": [..], "current": ..}; an entry of the log is written null for None
\* and as a number for Some; joins.rs's path is skipped
to_writer(gj) ==
    [current_hour |-> gj.current_hour,
     log |-> [i \in 1..Len(gj.log) |->
                 IF gj.log[i] = None THEN JsonNull ELSE JsonNumber(gj.log[i])] \o <<>>,
     current |-> gj.current]

\* a reader that takes null for a zero count
from_reader_null_as_zero(doc) ==
    [current_hour |-> doc.current_hour,
     log |-> [i \in 1..Len(doc.log) |->
                 IF doc.log[i] = JsonNull THEN Some(0) ELSE Some(JsonValue(doc.log[i]))] \o <<>>,
     current |-> doc.current]

\* serde_json::from_reader of such a document
from_reader(doc) ==
    [current_hour |-> doc.current_hour,
     log |-> [i \in 1..Len(doc.log) |->
                 IF doc.log[i] = JsonNull THEN None ELSE Some(JsonValue(doc.log[i]))] \o <<>>,
     current |-> doc.current]

\* a file of the data directory: missing, not a document, or a document (gj)
NoDoc == [current_hour |-> 0, log |-> <<>>, current |-> 0]
Absent == [tag |-> "absent", gj |-> NoDoc]
Corrupt == [tag |-> "corrupt", gj |-> NoDoc]
Record(gj) == [tag |-> "ok", gj |-> to_writer(gj)]

\* what a call hands back, and the call it was
NoStats == [kind |-> "none", n |-> 0, sum |-> 0, min4 |-> 0, lq4 |-> 0,
            median4 |-> 0, uq4 |-> 0, max4 |-> 0]
NoRet == [kind |-> "none", current |-> 0, stats |-> NoStats]
RetOk(cur, st) == [kind |-> "ok", current |-> cur, stats |-> st]
RetErr == [kind |-> "err", current |-> 0, stats |-> NoStats]
RetPanic == [kind |-> "panic", current |-> 0, stats |-> NoStats]
Ended(g, c, r) == [guild |-> g, count |-> c, ret |-> r]
NoCall == Ended(0, 0, NoRet)

Idle == [pc |-> "idle", guild |-> 0, count |-> 0, wr |-> FALSE]

\* an insert that zeroes the live count of every other key
Insert_zeroing(m, g, gj) ==
    [k \in DOMAIN m \cup {g} |-> IF k = g THEN gj ELSE [m[k] EXCEPT !.current = 0]]

Insert(m, g, gj) == [k \in DOMAIN m \cup {g} |-> IF k = g THEN gj ELSE m[k]]

InFlight(k) == \E t \in Threads : thr[t].pc # "idle" /\ thr[t].guild = k

\* history variable: a call on key g ended with result r
\* hour[k] is the sum of the deltas of the calls on k that began and ended well
\* since the clock last changed, or Spoilt when a call on k straddled the
\* change, failed, the process restarted or the clock has ever gone back
Spoilt == 0 - 1
HourDone(g, r, delta) ==
    [hour EXCEPT ![g] = IF r.kind = "ok" /\ @ # Spoilt THEN @ + delta ELSE Spoilt]
HourReset == [k \in Keys |-> IF InFlight(k) \/ budget.backs > 0 THEN Spoilt ELSE 0]
HourSpoil == [k \in Keys |-> Spoilt]

\* ---------------------------------------------------------------- Init
Init ==
    /\ rev \in {"main", "joins"}
    /\ now = StartHour
    /\ map = [k \in {} |-> Fresh(0)]
    /\ disk = [k \in Keys |-> Absent]
    /\ mapReaders = {}
    /\ mapWriter = 0
    /\ mapPoison = FALSE
    /\ gjHolder = [k \in Keys |-> 0]
    /\ gjPoison = [k \in Keys |-> FALSE]
    /\ thr = [t \in Threads |-> Idle]
    /\ last = NoCall
    /\ flushTodo = {}
    /\ hour = [k \in Keys |-> 0]
    /\ budget = [calls |-> 0, flushes |-> 0, ticks |-> 0, backs |-> 0,
                 fails |-> 0, restarts |-> 0]

\* --------------------------------------------------------- environment
\* the environment may still act: clock changes, flushes, failing saves and
\* restarts share one budget
EnvLeft == budget.flushes + budget.ticks + budget.backs + budget.fails
           + budget.restarts < MaxEnv

Quiet == \A t \in Threads : thr[t].pc = "idle"

\* the wall clock crosses one or more hour boundaries; a call takes far less
\* than an hour, so only one boundary is crossed while a call runs
Tick(d) ==
    /\ budget.ticks < MaxTicks
    /\ d > 1 => Quiet
    /\ EnvLeft
    /\ now' = now + d
    /\ hour' = HourReset
    /\ last' = NoCall
    /\ budget' = [budget EXCEPT !.ticks = @ + 1]
    /\ UNCHANGED <<rev, map, disk, mapReaders, mapWriter, mapPoison, gjHolder,
                   gjPoison, thr, flushTodo>>

\* the system clock is set back by an hour, between calls
ClockBack ==
    /\ budget.backs < MaxBack
    /\ Quiet
    /\ EnvLeft
    /\ now > 0
    /\ now' = now - 1
    /\ hour' = HourSpoil
    /\ last' = NoCall
    /\ budget' = [budget EXCEPT !.backs = @ + 1]
    /\ UNCHANGED <<rev, map, disk, mapReaders, mapWriter, mapPoison, gjHolder,
                   gjPoison, thr, flushTodo>>

\* the process ends (main.rs:124 after finalize, or killed) and starts again:
\* memory is lost, the data directory stays
Restart ==
    /\ budget.restarts < MaxRestarts
    /\ EnvLeft
    /\ Quiet
    /\ map # [k \in {} |-> Fresh(0)]
    /\ map' = [k \in {} |-> Fresh(0)]
    /\ mapPoison' = FALSE
    /\ gjPoison' = [k \in Keys |-> FALSE]
    /\ last' = NoCall
    /\ hour' = HourSpoil
    /\ budget' = [budget EXCEPT !.restarts = @ + 1]
    /\ UNCHANGED <<rev, now, disk, mapReaders, mapWriter, gjHolder, thr, flushTodo>>

\* Handler threads are interchangeable, and so are keys nobody has used: the
\* next call is taken by the lowest idle thread, and a new key is the lowest
\* unused one.
LowestIdle(t) == thr[t].pc = "idle" /\ \A u \in Threads : u < t => thr[u].pc # "idle"
Used == DOMAIN map \cup {k \in Keys : InFlight(k) \/ disk[k].tag # "absent"}
NextKey(g) == g \in Used \/ \A k \in Keys \ Used : g <= k

\* a handler thread enters GuildJoinsMap::add(guild, count); query is count = 0
Call(t, g, c) ==
    /\ LowestIdle(t)
    /\ NextKey(g)
    /\ budget.calls < MaxCalls
    /\ thr' = [thr EXCEPT ![t] = [pc |-> "lookup", guild |-> g, count |-> c,
                                  wr |-> FALSE]]
    /\ budget' = [budget EXCEPT !.calls = @ + 1]
    /\ UNCHANGED <<rev, now, map, disk, mapReaders, mapWriter, mapPoison,
                   gjHolder, gjPoison, last, flushTodo, hour>>

\* a handler thread enters GuildJoinsMap::finalize() / GuildJoinsMap::save()
FlushCall(t) ==
    /\ LowestIdle(t)
    /\ budget.flushes < MaxFlush
    /\ EnvLeft
    /\ thr' = [thr EXCEPT ![t] = [pc |-> "flushlock", guild |-> 0, count |-> 0,
                                  wr |-> FALSE]]
    /\ budget' = [budget EXCEPT !.flushes = @ + 1]
    /\ UNCHANGED <<rev, now, map, disk, mapReaders, mapWriter, mapPoison,
                   gjHolder, gjPoison, last, flushTodo, hour>>

\* the outcomes of GuildJoins::save: written; File::create failed (the old
\* file stays); to_writer failed (File::create has truncated the file)
SaveOutcomes == {"ok"} \cup (IF budget.fails < MaxFails /\ EnvLeft THEN {"nocreate", "nowrite"} ELSE {})
Saved(file, gj, o) ==
    CASE o = "ok" -> Record(gj)
      [] o = "nocreate" -> file
      [] OTHER -> Corrupt
Spend(o) == IF o = "ok" THEN budget ELSE [budget EXCEPT !.fails = @ + 1]

\* the recorded samples of a history, ascending (main.rs:312-313, joins.rs:146-154)
Sorted(log) == SortSeq(SelectSeq(log, LAMBDA x : x # None), LAMBDA a, b : a < b)

\* the sum of s[lo..hi], by halves
RECURSIVE SumRange(_, _, _)
SumRange(s, lo, hi) ==
    IF lo > hi THEN 0
    ELSE IF lo = hi THEN s[lo]
    ELSE LET mid == (lo + hi) \div 2
         IN  SumRange(s, lo, mid) + SumRange(s, mid + 1, hi)

SumSeq(s) == SumRange(s, 1, Len(s))

\* ===================================================== revision main.rs
\* GuildJoins::load: a missing, unreadable or unparsable file is None
Main_load(file) == IF file.tag = "ok" THEN <<from_reader(file.gj)>> ELSE <<>>

Main_new(file, h) == IF Main_load(file) # <<>> THEN Main_load(file)[1] ELSE Fresh(h)

\* GuildJoins::add, the fast path under the read lock: Err(()) when the stored
\* hour is stale, else fetch_add, which hands back the value before the add
Main_add(gj, count, h) ==
    IF h > gj.current_hour
    THEN [ok |-> FALSE, gj |-> gj, ret |-> 0]
    ELSE [ok |-> TRUE,
          gj |-> [gj EXCEPT !.current = @ + count],
          ret |-> gj.current]

\* GuildJoins::add_mut, the slow path under the write lock
Main_add_mut(gj, count, h) ==
    LET rolled ==
            IF h > gj.current_hour
            THEN LET diff == h - gj.current_hour
                     shifted == IF diff >= JOINS_BACKLOG_SIZE
                                THEN [i \in 1..JOINS_BACKLOG_SIZE |-> None]
                                ELSE SubSeq(gj.log, diff + 1, Len(gj.log))
                                     \o [i \in 1..diff |-> None]
                 IN  [gj EXCEPT !.log = [shifted EXCEPT ![Len(shifted)] = Some(gj.current)],
                                !.current = 0]
            ELSE gj
        after == [rolled EXCEPT !.current = @ + count]
    IN  [gj |-> after, ret |-> after.current]

\* weighted_ind(sorted, ind) for ind = (count - 1) * q / 4, times four;
\* sorted[ind as usize + 1] is out of bounds when trunc = len - 1
Main_weighted_ind(sorted, q) ==
    LET n == Len(sorted)
        trunc == ((n - 1) * q) \div 4
        frac4 == ((n - 1) * q) % 4
    IN  IF trunc < 0 THEN [panic |-> FALSE, v4 |-> 4 * sorted[1]]
        ELSE IF trunc > n - 1 THEN [panic |-> FALSE, v4 |-> 4 * sorted[n]]
        ELSE IF trunc + 2 > n THEN [panic |-> TRUE, v4 |-> 0]
        ELSE [panic |-> FALSE,
              v4 |-> sorted[trunc + 1] * frac4 + sorted[trunc + 2] * (4 - frac4)]

\* GuildJoins::stats; kind "Panic" is the index panic of weighted_ind
Main_stats(log) ==
    LET sorted == Sorted(log)
        lq == Main_weighted_ind(sorted, 1)
        median == Main_weighted_ind(sorted, 2)
        uq == Main_weighted_ind(sorted, 3)
    IN  IF sorted = <<>> THEN [NoStats EXCEPT !.kind = "Empty"]
        ELSE IF lq.panic \/ median.panic \/ uq.panic
        THEN [NoStats EXCEPT !.kind = "Panic"]
        ELSE [kind |-> "Data", n |-> Len(sorted), sum |-> SumSeq(sorted),
              min4 |-> 0, lq4 |-> lq.v4, median4 |-> median.v4, uq4 |-> uq.v4,
              max4 |-> 0]

\* Stats::is_abnormal(current): current > uq * 5, never for Stats::Empty
Main_is_abnormal(stats, current) ==
    IF stats.kind = "Empty" THEN FALSE ELSE 4 * current > stats.uq4 * 5

\* a return that keeps the map's read guard
Leave_holding(t, r) ==
    /\ thr' = [thr EXCEPT ![t] = Idle]
    /\ last' = Ended(thr[t].guild, thr[t].count, r)
    /\ mapReaders' = mapReaders
    /\ mapWriter' = IF mapWriter = t THEN 0 ELSE mapWriter
    /\ hour' = IF thr[t].guild = 0 THEN hour
               ELSE HourDone(thr[t].guild, r, thr[t].count)

\* the thread leaves its call with result r, dropping its map guard
Leave(t, r) ==
    /\ thr' = [thr EXCEPT ![t] = Idle]
    /\ last' = Ended(thr[t].guild, thr[t].count, r)
    /\ mapReaders' = mapReaders \ {t}
    /\ mapWriter' = IF mapWriter = t THEN 0 ELSE mapWriter
    /\ hour' = IF thr[t].guild = 0 THEN hour
               ELSE HourDone(thr[t].guild, r, thr[t].count)

\* main.rs:215-216, 232: take the map for reading and look the key up; the
\* guard is dropped again when the key is absent
Main_Lookup(t) ==
    /\ rev = "main"
    /\ thr[t].pc = "lookup"
    /\ mapWriter = 0
    /\ IF mapPoison
       THEN /\ Leave(t, RetPanic)
       ELSE /\ IF thr[t].guild \in DOMAIN map
               THEN /\ mapReaders' = mapReaders \cup {t}
                    /\ thr' = [thr EXCEPT ![t].pc = "fast"]
               ELSE /\ thr' = [thr EXCEPT ![t].pc = "create"]
                    /\ UNCHANGED mapReaders
            /\ UNCHANGED <<mapWriter, hour, last>>
    /\ UNCHANGED <<rev, now, map, disk, mapPoison, gjHolder, gjPoison,
                   flushTodo, budget>>

\* main.rs:217-223: gj.read(), GuildJoins::add, stats
Main_Fast(t) ==
    LET g == thr[t].guild
        r == Main_add(map[g], thr[t].count, now)
        st == Main_stats(r.gj.log)
    IN  /\ rev = "main"
        /\ thr[t].pc = "fast"
        /\ gjHolder[g] = 0
        /\ IF gjPoison[g]
           THEN /\ Leave(t, RetPanic)
                /\ UNCHANGED map
           ELSE IF ~r.ok
           THEN /\ thr' = [thr EXCEPT ![t].pc = "slow"]
                /\ UNCHANGED <<map, mapReaders, mapWriter, hour, last>>
           ELSE /\ map' = [map EXCEPT ![g] = r.gj]
                /\ IF st.kind = "Panic"
                   THEN Leave(t, RetPanic)
                   ELSE Leave(t, RetOk(r.ret, st))
        /\ UNCHANGED <<rev, now, disk, mapPoison, gjHolder, gjPoison,
                       flushTodo, budget>>

\* main.rs:226: gj.write()
Main_SlowLock(t) ==
    LET g == thr[t].guild
    IN  /\ rev = "main"
        /\ thr[t].pc = "slow"
        /\ gjHolder[g] = 0
        /\ IF gjPoison[g]
           THEN /\ Leave(t, RetPanic)
                /\ UNCHANGED gjHolder
           ELSE /\ gjHolder' = [gjHolder EXCEPT ![g] = t]
                /\ thr' = [thr EXCEPT ![t].pc = "addmut"]
                /\ UNCHANGED <<mapReaders, mapWriter, hour, last>>
        /\ UNCHANGED <<rev, now, map, disk, mapPoison, gjPoison, flushTodo,
                       budget>>

\* main.rs:227-229: GuildJoins::add_mut, stats; a panic under the write
\* guard poisons the RwLock
Main_AddMut(t) ==
    LET g == thr[t].guild
        r == Main_add_mut(map[g], thr[t].count, now)
        st == Main_stats(r.gj.log)
    IN  /\ rev = "main"
        /\ thr[t].pc = "addmut"
        /\ map' = [map EXCEPT ![g] = r.gj]
        /\ gjHolder' = [gjHolder EXCEPT ![g] = 0]
        /\ IF st.kind = "Panic"
           THEN /\ gjPoison' = [gjPoison EXCEPT ![g] = TRUE]
                /\ Leave(t, RetPanic)
           ELSE /\ UNCHANGED gjPoison
                /\ Leave(t, RetOk(r.ret, st))
        /\ UNCHANGED <<rev, now, disk, mapPoison, flushTodo, budget>>

\* main.rs:234-238: take the map for writing, GuildJoins::new, insert (which
\* replaces an entry another thread has inserted meanwhile), loop
Main_Create(t) ==
    LET g == thr[t].guild
    IN  /\ rev = "main"
        /\ thr[t].pc = "create"
        /\ mapReaders = {} /\ mapWriter = 0
        /\ IF mapPoison
           THEN /\ Leave(t, RetPanic)
                /\ UNCHANGED <<map, gjPoison>>
           ELSE /\ map' = Insert(map, g, Main_new(disk[g], now))
                /\ gjPoison' = [gjPoison EXCEPT ![g] = FALSE]
                /\ thr' = [thr EXCEPT ![t].pc = "lookup"]
                /\ UNCHANGED <<mapReaders, mapWriter, hour, last>>
        /\ UNCHANGED <<rev, now, disk, mapPoison, gjHolder, flushTodo, budget>>

\* main.rs:202: finalize takes the map for writing
Main_FinLock(t) ==
    /\ rev = "main"
    /\ thr[t].pc = "flushlock"
    /\ mapReaders = {} /\ mapWriter = 0
    /\ IF mapPoison
       THEN /\ Leave(t, RetPanic)
            /\ UNCHANGED flushTodo
       ELSE /\ mapWriter' = t
            /\ flushTodo' = DOMAIN map
            /\ thr' = [thr EXCEPT ![t].pc = "flushing"]
            /\ UNCHANGED <<mapReaders, hour, last>>
    /\ UNCHANGED <<rev, now, map, disk, mapPoison, gjHolder, gjPoison, budget>>

\* main.rs:204-209: one turn of the loop, in the HashMap's order: gj.write(),
\* save; an error is logged and the loop goes on. A poisoned RwLock panics
\* under the map's write guard, which poisons the map.
Main_FinSave(t, k, o) ==
    /\ rev = "main"
    /\ thr[t].pc = "flushing"
    /\ k \in flushTodo
    /\ o \in SaveOutcomes
    /\ IF gjPoison[k]
       THEN /\ o = "ok"
            /\ mapPoison' = TRUE
            /\ Leave(t, RetPanic)
            /\ UNCHANGED <<disk, flushTodo, budget>>
       ELSE /\ disk' = [disk EXCEPT ![k] = Saved(@, map[k], o)]
            /\ flushTodo' = flushTodo \ {k}
            /\ budget' = Spend(o)
            /\ UNCHANGED <<mapPoison, mapReaders, mapWriter, thr, hour, last>>
    /\ UNCHANGED <<rev, now, map, gjHolder, gjPoison>>

\* main.rs:210: the loop is over, the guard is dropped
Main_FinDone(t) ==
    /\ rev = "main"
    /\ thr[t].pc = "flushing"
    /\ flushTodo = {}
    /\ Leave(t, RetOk(0, NoStats))
    /\ UNCHANGED <<rev, now, map, disk, mapPoison, gjHolder, gjPoison,
                   flushTodo, budget>>

MainNext ==
    \E t \in Threads :
        \/ Main_Lookup(t)
        \/ Main_Fast(t)
        \/ Main_SlowLock(t)
        \/ Main_AddMut(t)
        \/ Main_Create(t)
        \/ Main_FinLock(t)
        \/ \E k \in Keys, o \in {"ok", "nocreate", "nowrite"} : Main_FinSave(t, k, o)
        \/ Main_FinDone(t)

\* ==================================================== revision joins.rs
\* a loop that pops the front and pushes nothing
Joins_fill_pop_only(gj, fill_with_none, h) ==
    IF gj.current_hour < h
    THEN [current_hour |-> h,
          log |-> SubSeq(gj.log, h - gj.current_hour + 1, Len(gj.log)),
          current |-> 0]
    ELSE gj

\* the while loop of update_to_latest_hour (joins.rs:120-128), run to its end:
\* every turn pops the front, pushes the filler and zeroes the live count, so
\* after h - current_hour turns the history is its old tail followed by
\* that many fillers (all of it fillers once the turns reach its length)
Joins_fill(gj, fill_with_none, h) ==
    IF gj.current_hour < h
    THEN LET turns == h - gj.current_hour
             filler == IF fill_with_none THEN None ELSE Some(0)
         IN  [current_hour |-> h,
              log |-> [i \in 1..Len(gj.log) |->
                          IF i + turns <= Len(gj.log) THEN gj.log[i + turns]
                          ELSE filler],
              current |-> 0]
    ELSE gj

\* GuildJoins::update_to_latest_hour up to its save: the assertion, need_save,
\* the first hour closed with the live count, the others filled
Joins_update_to_latest_hour(gj, fill_with_none, h) ==
    IF ~(gj.current_hour <= h)
    THEN [panic |-> TRUE, need_save |-> FALSE, gj |-> gj]
    ELSE [panic |-> FALSE,
          need_save |-> gj.current_hour # h,
          gj |-> IF gj.current_hour < h
                 THEN Joins_fill([current_hour |-> gj.current_hour + 1,
                                  log |-> Append(Tail(gj.log), Some(gj.current)),
                                  current |-> 0],
                                 fill_with_none, h)
                 ELSE gj]

\* linterp(l, r, k) for k = f4 / 4, times four
Joins_linterp4(l, r, f4) == l * (4 - f4) + r * f4

\* get_percentile(slice, q / 4), times four
Joins_get_percentile(slice, q) ==
    IF slice = <<>> THEN 0
    ELSE LET position4 == Joins_linterp4(0, Len(slice) - 1, q)
             low == position4 \div 4
             high == low + 1
         IN  IF high >= Len(slice)
             THEN 4 * slice[low + 1]
             ELSE Joins_linterp4(slice[low + 1], slice[high + 1], position4 % 4)

\* GuildJoins::stat after its update_to_latest_hour; the mean is sum / n
Joins_stat(gj) ==
    LET data == Sorted(gj.log)
    IN  [kind |-> "Stat", n |-> Len(data), sum |-> SumSeq(data),
         min4 |-> Joins_get_percentile(data, 0),
         lq4 |-> Joins_get_percentile(data, 1),
         median4 |-> Joins_get_percentile(data, 2),
         uq4 |-> Joins_get_percentile(data, 3),
         max4 |-> Joins_get_percentile(data, 4)]

\* Stat::is_abnormal: never up to JoinsQuietMax joins, else current > uq * 2 + 5
JoinsQuietMax == 8
Joins_is_abnormal(stat, current) ==
    IF current <= JoinsQuietMax THEN FALSE ELSE 4 * current > stat.uq4 * 2 + 4 * 5

\* GuildJoins::read with the save of its update_to_latest_hour ending o:
\* what it returns and what it leaves in the file
Joins_read(file, h, o) ==
    LET de == from_reader(file.gj)
        u == Joins_update_to_latest_hour(de, TRUE, h)
    IN  IF file.tag # "ok" THEN [kind |-> "err", gj |-> Fresh(h), file |-> file]
        ELSE IF u.panic THEN [kind |-> "panic", gj |-> de, file |-> file]
        ELSE IF ~u.need_save THEN [kind |-> "ok", gj |-> u.gj, file |-> file]
        ELSE [kind |-> IF o = "ok" THEN "ok" ELSE "err", gj |-> u.gj,
              file |-> Saved(file, u.gj, o)]

\* GuildJoins::read_or_new
Joins_read_or_new(file, h, o) ==
    LET r == Joins_read(file, h, o)
    IN  IF r.kind = "err" THEN [r EXCEPT !.kind = "ok", !.gj = Fresh(h)] ELSE r

\* does the save of this update run at all
Saves(u, o) == IF ~u.panic /\ u.need_save THEN o \in SaveOutcomes ELSE o = "ok"

\* the thread leaves run(), dropping the Mutex guard if it holds one
Joins_Leave(t, r) ==
    /\ Leave(t, r)
    /\ gjHolder' = [k \in Keys |-> IF gjHolder[k] = t THEN 0 ELSE gjHolder[k]]

\* a panic passes a held Mutex guard (poisoning the Mutex) or, on the
\* creating path, the map's write guard (poisoning the map)
Joins_Panic(t) ==
    /\ Joins_Leave(t, RetPanic)
    /\ IF thr[t].wr
       THEN mapPoison' = TRUE /\ UNCHANGED gjPoison
       ELSE /\ gjPoison' = [k \in Keys |-> gjPoison[k] \/ gjHolder[k] = t]
            /\ UNCHANGED mapPoison

\* joins.rs:42-43, 47: take the map for reading and look the key up
Joins_Lookup(t) ==
    /\ rev = "joins"
    /\ thr[t].pc = "lookup"
    /\ mapWriter = 0
    /\ IF mapPoison
       THEN /\ Leave(t, RetPanic)
       ELSE /\ IF thr[t].guild \in DOMAIN map
               THEN /\ mapReaders' = mapReaders \cup {t}
                    /\ thr' = [thr EXCEPT ![t].pc = "lock"]
               ELSE /\ thr' = [thr EXCEPT ![t].pc = "create"]
                    /\ UNCHANGED mapReaders
            /\ UNCHANGED <<mapWriter, hour, last>>
    /\ UNCHANGED <<rev, now, map, disk, mapPoison, gjHolder, gjPoison,
                   flushTodo, budget>>

\* joins.rs:44: gj.lock()
Joins_Lock(t) ==
    LET g == thr[t].guild
    IN  /\ rev = "joins"
        /\ thr[t].pc = "lock"
        /\ gjHolder[g] = 0
        /\ IF gjPoison[g]
           THEN /\ Leave(t, RetPanic)
                /\ UNCHANGED gjHolder
           ELSE /\ gjHolder' = [gjHolder EXCEPT ![g] = t]
                /\ thr' = [thr EXCEPT ![t].pc = "add"]
                /\ UNCHANGED <<mapReaders, mapWriter, hour, last>>
        /\ UNCHANGED <<rev, now, map, disk, mapPoison, gjPoison, flushTodo,
                       budget>>

\* joins.rs:50-55: take the map for writing, entry(guild).or_insert_with(
\* read_or_new), get_mut
Joins_Create(t, o) ==
    LET g == thr[t].guild
        r == Joins_read_or_new(disk[g], now, o)
        u == Joins_update_to_latest_hour(from_reader(disk[g].gj), TRUE, now)
    IN  /\ rev = "joins"
        /\ thr[t].pc = "create"
        /\ mapReaders = {} /\ mapWriter = 0
        /\ IF mapPoison
           THEN /\ o = "ok"
                /\ Leave(t, RetPanic)
                /\ UNCHANGED <<map, disk, mapPoison, budget>>
           ELSE IF g \in DOMAIN map
           THEN /\ o = "ok"
                /\ IF gjPoison[g]
                   THEN Leave(t, RetPanic) /\ mapPoison' = TRUE
                   ELSE /\ mapWriter' = t
                        /\ thr' = [thr EXCEPT ![t].pc = "add", ![t].wr = TRUE]
                        /\ UNCHANGED <<mapReaders, mapPoison, hour, last>>
                /\ UNCHANGED <<map, disk, budget>>
           ELSE /\ IF disk[g].tag = "ok" THEN Saves(u, o) ELSE o = "ok"
                /\ disk' = [disk EXCEPT ![g] = r.file]
                /\ budget' = Spend(o)
                /\ IF r.kind = "panic"
                   THEN /\ Leave(t, RetPanic)
                        /\ mapPoison' = TRUE
                        /\ UNCHANGED map
                   ELSE /\ map' = Insert(map, g, r.gj)
                        /\ mapWriter' = t
                        /\ thr' = [thr EXCEPT ![t].pc = "add", ![t].wr = TRUE]
                        /\ UNCHANGED <<mapReaders, mapPoison, hour, last>>
        /\ UNCHANGED <<rev, now, gjHolder, gjPoison, flushTodo>>

\* joins.rs:62, GuildJoins::add: update_to_latest_hour(false)?, then the delta
Joins_Add(t, o) ==
    LET g == thr[t].guild
        u == Joins_update_to_latest_hour(map[g], FALSE, now)
        added == [u.gj EXCEPT !.current = @ + thr[t].count]
    IN  /\ rev = "joins"
        /\ thr[t].pc = "add"
        /\ Saves(u, o)
        /\ budget' = Spend(o)
        /\ IF u.panic
           THEN /\ Joins_Panic(t)
                /\ UNCHANGED <<map, disk>>
           ELSE /\ disk' = IF u.need_save
                           THEN [disk EXCEPT ![g] = Saved(@, u.gj, o)]
                           ELSE disk
                /\ IF o # "ok"
                   THEN /\ map' = [map EXCEPT ![g] = u.gj]
                        /\ Joins_Leave(t, RetErr)
                   ELSE /\ map' = [map EXCEPT ![g] = added]
                        /\ thr' = [thr EXCEPT ![t].pc = "stat"]
                        /\ UNCHANGED <<mapReaders, mapWriter, gjHolder, hour, last>>
                /\ UNCHANGED <<mapPoison, gjPoison>>
        /\ UNCHANGED <<rev, now, flushTodo>>

\* joins.rs:63, GuildJoins::stat: update_to_latest_hour(false)?, then the Stat
Joins_Stat(t, o) ==
    LET g == thr[t].guild
        u == Joins_update_to_latest_hour(map[g], FALSE, now)
    IN  /\ rev = "joins"
        /\ thr[t].pc = "stat"
        /\ Saves(u, o)
        /\ budget' = Spend(o)
        /\ IF u.panic
           THEN /\ Joins_Panic(t)
                /\ UNCHANGED <<map, disk>>
           ELSE /\ disk' = IF u.need_save
                           THEN [disk EXCEPT ![g] = Saved(@, u.gj, o)]
                           ELSE disk
                /\ map' = [map EXCEPT ![g] = u.gj]
                /\ IF o # "ok"
                   THEN Joins_Leave(t, RetErr)
                   ELSE Joins_Leave(t, RetOk(u.gj.current, Joins_stat(u.gj)))
                /\ UNCHANGED <<mapPoison, gjPoison>>
        /\ UNCHANGED <<rev, now, flushTodo>>

\* joins.rs:30: save takes the map for writing
Joins_SaveLock(t) ==
    /\ rev = "joins"
    /\ thr[t].pc = "flushlock"
    /\ mapReaders = {} /\ mapWriter = 0
    /\ IF mapPoison
       THEN /\ Leave(t, RetPanic)
            /\ UNCHANGED flushTodo
       ELSE /\ mapWriter' = t
            /\ flushTodo' = DOMAIN map
            /\ thr' = [thr EXCEPT ![t].pc = "flushing"]
            /\ UNCHANGED <<mapReaders, hour, last>>
    /\ UNCHANGED <<rev, now, map, disk, mapPoison, gjHolder, gjPoison, budget>>

\* joins.rs:31-33: one turn of the loop, in the HashMap's order:
\* gj.lock().unwrap().save()?, which returns at the first error
Joins_SaveOne(t, k, o) ==
    /\ rev = "joins"
    /\ thr[t].pc = "flushing"
    /\ k \in flushTodo
    /\ o \in SaveOutcomes
    /\ IF gjPoison[k]
       THEN /\ o = "ok"
            /\ mapPoison' = TRUE
            /\ Leave(t, RetPanic)
            /\ UNCHANGED <<disk, flushTodo, budget>>
       ELSE /\ disk' = [disk EXCEPT ![k] = Saved(@, map[k], o)]
            /\ flushTodo' = flushTodo \ {k}
            /\ budget' = Spend(o)
            /\ IF o # "ok"
               THEN Leave(t, RetErr)
               ELSE UNCHANGED <<mapReaders, mapWriter, thr, hour, last>>
            /\ UNCHANGED mapPoison
    /\ UNCHANGED <<rev, now, map, gjHolder, gjPoison>>

\* joins.rs:34: Ok(())
Joins_SaveDone(t) ==
    /\ rev = "joins"
    /\ thr[t].pc = "flushing"
    /\ flushTodo = {}
    /\ Leave(t, RetOk(0, NoStats))
    /\ UNCHANGED <<rev, now, map, disk, mapPoison, gjHolder, gjPoison,
                   flushTodo, budget>>

JoinsNext ==
    \E t \in Threads :
        \/ Joins_Lookup(t)
        \/ Joins_Lock(t)
        \/ \E o \in {"ok", "nocreate", "nowrite"} : Joins_Create(t, o)
        \/ \E o \in {"ok", "nocreate", "nowrite"} : Joins_Add(t, o)
        \/ \E o \in {"ok", "nocreate", "nowrite"} : Joins_Stat(t, o)
        \/ Joins_SaveLock(t)
        \/ \E k \in Keys, o \in {"ok", "nocreate", "nowrite"} : Joins_SaveOne(t, k, o)
        \/ Joins_SaveDone(t)

EnvNext ==
    \/ \E d \in Jumps : Tick(d)
    \/ ClockBack
    \/ Restart
    \/ \E t \in Threads, g \in Keys, c \in Deltas : Call(t, g, c)
    \/ \E t \in Threads : FlushCall(t)

Next == EnvNext \/ MainNext \/ JoinsNext

Spec == Init /\ [][Next]_vars

\* each revision on its own
InitMain == Init /\ rev = "main"
InitJoins == Init /\ rev = "joins"
SpecMain == InitMain /\ [][EnvNext \/ MainNext]_vars
SpecJoins == InitJoins /\ [][EnvNext \/ JoinsNext]_vars

\* ------------------------------------------------------ fair scheduling
\* a step of thread t's call, in either revision
Run(t) ==
    \/ Main_Lookup(t)
    \/ Main_Fast(t)
    \/ Main_SlowLock(t)
    \/ Main_AddMut(t)
    \/ Main_Create(t)
    \/ Main_FinLock(t)
    \/ \E k \in Keys, o \in {"ok", "nocreate", "nowrite"} : Main_FinSave(t, k, o)
    \/ Main_FinDone(t)
    \/ Joins_Lookup(t)
    \/ Joins_Lock(t)
    \/ \E o \in {"ok", "nocreate", "nowrite"} : Joins_Create(t, o)
    \/ \E o \in {"ok", "nocreate", "nowrite"} : Joins_Add(t, o)
    \/ \E o \in {"ok", "nocreate", "nowrite"} : Joins_Stat(t, o)
    \/ Joins_SaveLock(t)
    \/ \E k \in Keys, o \in {"ok", "nocreate", "nowrite"} : Joins_SaveOne(t, k, o)
    \/ Joins_SaveDone(t)

\* thread t can take a step of its call: it is in a call and the lock it is
\* about to take is free (the guards of the actions of Run(t))
CanRun(t) ==
    CASE thr[t].pc = "idle" -> FALSE
      [] thr[t].pc = "lookup" -> mapWriter = 0
      [] thr[t].pc \in {"fast", "slow", "lock"} -> gjHolder[thr[t].guild] = 0
      [] thr[t].pc \in {"create", "flushlock"} -> mapReaders = {} /\ mapWriter = 0
      [] OTHER -> TRUE

\* The handler threads are OS threads: one that can take a step, and can go
\* on taking it, is scheduled in the end; a thread waiting for a lock steps
\* once the lock stays free. This is weak fairness of the thread's steps,
\* WF_vars(Run(t)), written out with CanRun(t) for ENABLED <<Run(t)>>_vars.
Fair(t) == []<>(~CanRun(t)) \/ []<><<Run(t)>>_vars

\* The environment of the fair runs: up to MaxFairCalls calls, a flush, and
\* the clock crossing one hour boundary at a time.
MaxFairCalls == 2

FairNext ==
    \/ Tick(1)
    \/ \E t \in Threads, g \in Keys, c \in Deltas :
          budget.calls < MaxFairCalls /\ Call(t, g, c)
    \/ \E t \in Threads : FlushCall(t)
    \/ \E t \in Threads : Run(t)

SpecFair == Init /\ [][FairNext]_vars /\ \A t \in Threads : Fair(t)

\* ------------------------------------------- start over a data directory
\* The process starts over the data directory of an earlier run: key 1 has a
\* file, written in the last hour or in this one. Its history ends with up to
\* MaxSamples recorded counts (multiples of Sample, rising or falling), and
\* its live count is 0 or just above JoinsQuietMax; or the file was cut short
\* by a failed write.
MaxSamples == 4
Sample == 10

BootLog(n, rising) ==
    [i \in 1..BACKLOG_SIZE |->
        IF i <= BACKLOG_SIZE - n THEN None
        ELSE IF rising THEN Some(Sample * (i - (BACKLOG_SIZE - n)))
        ELSE Some(Sample * (BACKLOG_SIZE + 1 - i))]

BootFiles ==
    {Corrupt} \cup
    {Record([current_hour |-> h, log |-> BootLog(n, rising), current |-> c]) :
        h \in {StartHour - 1, StartHour}, n \in 0..MaxSamples,
        rising \in BOOLEAN, c \in {0, JoinsQuietMax + 1}}

InitBoot ==
    /\ rev \in {"main", "joins"}
    /\ now = StartHour
    /\ map = [k \in {} |-> Fresh(0)]
    /\ \E f \in BootFiles : disk = [k \in Keys |-> IF k = 1 THEN f ELSE Absent]
    /\ mapReaders = {}
    /\ mapWriter = 0
    /\ mapPoison = FALSE
    /\ gjHolder = [k \in Keys |-> 0]
    /\ gjPoison = [k \in Keys |-> FALSE]
    /\ thr = [t \in Threads |-> Idle]
    /\ last = NoCall
    /\ flushTodo = {}
    /\ hour = [k \in Keys |-> 0]
    /\ budget = [calls |-> 0, flushes |-> 0, ticks |-> 0, backs |-> 0,
                 fails |-> 0, restarts |-> 0]

\* the calls of the handler threads, with no flush and a steady clock
BootNext ==
    \E t \in Threads :
        \/ \E g \in Keys, c \in Deltas : Call(t, g, c)
        \/ Main_Lookup(t)
        \/ Main_Fast(t)
        \/ Main_SlowLock(t)
        \/ Main_AddMut(t)
        \/ Main_Create(t)
        \/ Joins_Lookup(t)
        \/ Joins_Lock(t)
        \/ \E o \in {"ok", "nocreate", "nowrite"} : Joins_Create(t, o)
        \/ \E o \in {"ok", "nocreate", "nowrite"} : Joins_Add(t, o)
        \/ \E o \in {"ok", "nocreate", "nowrite"} : Joins_Stat(t, o)

SpecBoot == InitBoot /\ [][BootNext]_vars

\* ================================================================ claims
\* thread t takes a step of its call on key g
Steps(t) == thr'[t] # thr[t]
\* thread t's call on a key ends in this step
Returns(t) == thr[t].pc \notin {"idle", "flushlock", "flushing"} /\ thr'[t].pc = "idle"
\* the steps that read the clock and may roll the counter forward
Rolling(t) == thr[t].pc \in {"addmut", "add", "stat"} /\ Steps(t)
\* the delta a rolling step adds after the rollover
Delta(t) == IF thr[t].pc = "stat" THEN 0 ELSE thr[t].count

\* C1: no lost updates. When the calls on a key that began and ended since the
\* clock last changed have all returned, the key's live count is the sum of
\* their deltas, whatever the interleaving (first touch included).
C1_NoLostUpdates ==
    LET g == last.guild
    IN  (last.ret.kind = "ok" /\ g \in DOMAIN map /\ hour[g] # Spoilt /\ ~InFlight(g))
        => map[g].current = hour[g]

\* C2: a step that rolls the history forward advances current_hour to the
\* observed hour in the same step, and a call that returns leaves
\* current_hour at the hour it observed.
C2_RollAdvancesHour ==
    [][\A t \in Threads :
         LET g == thr[t].guild
         IN  /\ (Rolling(t) /\ map'[g].log # map[g].log)
                => map'[g].current_hour = now
             /\ (Rolling(t) /\ Returns(t) /\ last'.ret.kind = "ok"
                 /\ map[g].current_hour <= now)
                => map'[g].current_hour = now]_vars

\* what C3 expects of a history rolled forward by k hours, 1 <= k < BACKLOG
RolledBy(gj, k) ==
    SubSeq(gj.log, k + 1, Len(gj.log)) \o <<Some(gj.current)>> \o [i \in 1..(k - 1) |-> None]

\* C3: rolling forward by k hours, 1 <= k < BACKLOG, evicts the k oldest
\* entries and appends k: first Some(live count), then k - 1 times None; the
\* live count restarts from 0.
C3_RollByK ==
    [][\A t \in Threads :
         LET g == thr[t].guild
             k == now - map[g].current_hour
         IN  (Rolling(t) /\ 1 <= k /\ k < BACKLOG_SIZE /\ budget'.fails = budget.fails)
             => /\ map'[g].log = RolledBy(map[g], k)
                /\ map'[g].current = Delta(t)]_vars

\* C4: rolling forward by k >= BACKLOG hours leaves a history of BACKLOG gap
\* markers, and the live count restarts from 0.
C4_RollPastBacklog ==
    [][\A t \in Threads :
         LET g == thr[t].guild
             k == now - map[g].current_hour
         IN  (Rolling(t) /\ k >= BACKLOG_SIZE /\ budget'.fails = budget.fails)
             => /\ map'[g].log = NoneLog
                /\ map'[g].current = Delta(t)]_vars

\* C5: a query on a key whose last call ended in this same hour, with no call
\* ended since, leaves the key's live count and history as they were: none of
\* its steps changes them.
C5_QueryKeepsCount ==
    [][\A t \in Threads :
         LET g == thr[t].guild
         IN  (Steps(t) /\ thr[t].pc # "idle" /\ thr[t].count = 0 /\ g \in DOMAIN map
              /\ last.guild = g /\ last.ret.kind = "ok")
             => /\ g \in DOMAIN map'
                /\ map'[g].log = map[g].log
                /\ map'[g].current = map[g].current]_vars

\* C6: the current a call returns is the key's live count with the call's own
\* delta in it.
C6_ReturnsPostIncrement ==
    [][\A t \in Threads :
         (Returns(t) /\ last'.ret.kind = "ok")
         => last'.ret.current = map'[thr[t].guild].current]_vars

\* C7: a call that reads a clock hour below the stored current_hour panics and
\* changes neither the live count nor the history.
C7_ClockRegressionTrapped ==
    [][\A t \in Threads :
         LET g == thr[t].guild
         IN  (thr[t].pc \in {"fast", "addmut", "add", "stat"} /\ Steps(t)
              /\ now < map[g].current_hour)
             => /\ thr'[t].pc = "idle"
                /\ last'.ret.kind = "panic"
                /\ map' = map]_vars

\* C8: right after a roll-forward across an hour boundary whose save did not
\* fail, the key's file holds the hour index and the history after the
\* rollover.
C8_SavedOnRollover ==
    [][\A t \in Threads :
         LET g == thr[t].guild
         IN  (Rolling(t) /\ map[g].current_hour < now /\ budget'.fails = budget.fails)
             => /\ disk'[g].tag = "ok"
                /\ disk'[g].gj.current_hour = now
                /\ disk'[g].gj.log = to_writer(map'[g]).log]_vars

\* C9: when the save of a roll-forward fails, the call still adds its delta
\* to the live count of the new hour and returns no error.
C9_SaveFailureHarmless ==
    [][\A t \in Threads :
         LET g == thr[t].guild
         IN  (Rolling(t) /\ budget'.fails > budget.fails)
             => /\ map'[g].current = Delta(t)
                /\ map'[g].current_hour = now
                /\ Returns(t) => last'.ret.kind = "ok"]_vars

\* C10: when finalize / save returns, a save has been attempted for every key
\* of the map.
C10_FlushVisitsAll ==
    [][\A t \in Threads :
         (thr[t].pc = "flushing" /\ thr'[t].pc = "idle" /\ last'.ret.kind # "panic")
         => flushTodo' = {}]_vars

\* C11: once a key's counter is in the map it is never removed while the
\* process lives, and a thread that found the key absent and then takes the
\* map for writing leaves a counter that another thread inserted meanwhile
\* as it is.
C11_CounterNeverReplaced ==
    [][/\ budget'.restarts = budget.restarts => DOMAIN map \subseteq DOMAIN map'
       /\ \A t \in Threads :
            LET g == thr[t].guild
            IN  (thr[t].pc = "create" /\ Steps(t) /\ g \in DOMAIN map)
                => (g \in DOMAIN map' /\ map'[g] = map[g])]_vars

\* what loading a file at hour h gives, in the revision that runs
LoadAt(file, h) ==
    IF rev = "main" THEN Main_new(file, h) ELSE Joins_read_or_new(file, h, "ok").gj

\* a step that may write key g's file
Saving(g) ==
    \E t \in Threads :
        /\ \/ Steps(t) /\ thr[t].pc \in {"create", "add", "stat"} /\ thr[t].guild = g
           \/ thr[t].pc = "flushing" /\ g \in flushTodo /\ g \notin flushTodo'
        /\ budget'.fails = budget.fails

\* the delta a step adds to key g's live count after it has saved the counter
AddedAfterSave(g) ==
    IF \E t \in Threads : thr[t].pc = "add" /\ thr[t].guild = g /\ thr'[t].pc = "stat"
    THEN thr[CHOOSE t \in Threads : thr[t].pc = "add" /\ thr[t].guild = g /\ thr'[t].pc = "stat"].count
    ELSE 0

C13_OneSampleStats ==
    [][\A t \in Threads :
         LET g == thr[t].guild
             v == Sorted(map'[g].log)[1]
         IN  /\ (Returns(t) /\ thr[t].pc \in {"fast", "addmut", "stat"}
                 /\ ~gjPoison[g] /\ map[g].current_hour <= now
                 /\ budget'.fails = budget.fails
                 /\ Len(Sorted(map'[g].log)) = 1)
                => /\ last'.ret.kind = "ok"
                   /\ last'.ret.stats.n = 1
                   /\ last'.ret.stats.sum = v
                   /\ last'.ret.stats.lq4 = 4 * v
                   /\ last'.ret.stats.median4 = 4 * v
                   /\ last'.ret.stats.uq4 = 4 * v
             /\ (Rolling(t) /\ now = map[g].current_hour + 1 /\ thr[t].count = 0
                 /\ budget'.fails = budget.fails)
                => /\ map'[g].log[Len(map'[g].log)] = Some(map[g].current)
                   /\ map'[g].current = 0]_vars

\* the anomaly predicate on what a call returned (main.rs:164), in the
\* revision that runs
Alert(r) ==
    IF rev = "main" THEN Main_is_abnormal(r.stats, r.current)
    ELSE Joins_is_abnormal(r.stats, r.current)

\* C12: when a call returns statistics over a history with no recorded
\* sample, the anomaly predicate is false on what it returns, whatever the
\* live count.
C12_NoAlertWhenEmpty ==
    [][\A t \in Threads :
         LET g == thr[t].guild
         IN  (Returns(t) /\ last'.ret.kind = "ok" /\ Sorted(map'[g].log) = <<>>)
             => ~Alert(last'.ret)]_vars

\* the quartile q/4 of the sorted samples s as C14 states it, times four:
\* position = q/4 * (n - 1), lo = floor(position), frac = position - lo,
\* s[lo] * (1 - frac) + s[lo + 1] * frac (s[lo] alone when frac = 0)
Interp4(s, q) ==
    LET position4 == q * (Len(s) - 1)
        lo == position4 \div 4
        frac4 == position4 % 4
    IN  IF frac4 = 0 THEN 4 * s[lo + 1]
        ELSE s[lo + 1] * (4 - frac4) + s[lo + 2] * frac4

\* C14: the quartiles a call returns are the linear interpolations between
\* the two nearest order statistics of the sorted samples.
C14_QuartilesInterpolate ==
    [][\A t \in Threads :
         LET g == thr[t].guild
             sorted == Sorted(map'[g].log)
         IN  (Returns(t) /\ last'.ret.kind = "ok" /\ Len(sorted) >= 1)
             => /\ last'.ret.stats.lq4 = Interp4(sorted, 1)
                /\ last'.ret.stats.median4 = Interp4(sorted, 2)
                /\ last'.ret.stats.uq4 = Interp4(sorted, 3)]_vars

\* the record holds something a fresh counter would lose
HasData(de) == de.current > 0 \/ Sorted(de.log) # <<>>

\* C15: the first touch of a key whose file is missing or is no document
\* inserts a fresh counter (current_hour = the clock's hour, BACKLOG gap
\* markers, live count 0) and does not fail; the first touch of a key with a
\* valid record that holds data never inserts a fresh counter instead.
C15_LoadOrFresh ==
    [][\A t \in Threads :
         LET g == thr[t].guild
             de == from_reader(disk[g].gj)
         IN  (thr[t].pc = "create" /\ Steps(t) /\ g \notin DOMAIN map /\ ~mapPoison)
             => /\ disk[g].tag # "ok"
                   => /\ g \in DOMAIN map'
                      /\ map'[g] = Fresh(now)
                      /\ thr'[t].pc # "idle"
                /\ (disk[g].tag = "ok" /\ de.current_hour <= now /\ HasData(de))
                   => /\ g \in DOMAIN map'
                      /\ map'[g] # Fresh(now)]_vars

\* C17: the history of every counter in the map has exactly BACKLOG entries,
\* in every reachable state.
C17_HistoryLength ==
    \A g \in DOMAIN map : Len(map[g].log) = BACKLOG_SIZE

\* the clock has moved once, by BACKLOG hours or more, and a counter created
\* before that has been rolled forward: its history holds a recorded count
C17_Witness ==
    /\ now >= StartHour + BACKLOG_SIZE
    /\ budget.ticks = 1
    /\ \E g \in DOMAIN map : Len(Sorted(map[g].log)) >= 1

\* C18: keys are independent. No step of an add or a query on key A changes
\* the current_hour, the history or the live count of another key B of the
\* map, or takes B out of the map.
C18_KeysIndependent ==
    [][\A t \in Threads :
         (Steps(t) /\ thr[t].pc \notin {"idle", "flushlock", "flushing"})
         => \A b \in DOMAIN map \ {thr[t].guild} :
              b \in DOMAIN map' /\ map'[b] = map[b]]_vars

\* two keys of the map have both counted joins in calls that interleaved
C18_Witness ==
    \E a, b \in DOMAIN map :
        /\ a # b
        /\ map[a].current > 0
        /\ map[b].current > 0
        /\ InFlight(a)

\* C19: the rollover for one hour boundary is done once. When a call on the
\* key has ended since the clock last changed, a call that found the stored
\* hour stale and now takes the slow path does not shift the history again:
\* it only adds its delta, and it returns normally.
C19_RolloverOnce ==
    [][\A t \in Threads :
         LET g == thr[t].guild
         IN  (thr[t].pc \in {"slow", "addmut"} /\ Steps(t)
              /\ last.guild = g /\ last.ret.kind # "none")
             => /\ map'[g].log = map[g].log
                /\ thr[t].pc = "addmut" => map'[g].current = map[g].current + thr[t].count
                /\ Returns(t) => last'.ret.kind = "ok"]_vars

\* C20: under fair scheduling every call of add, query and finalize / save
\* returns: a thread that is in a call is idle again later.
C20_CallsReturn ==
    \A t \in Threads : (thr[t].pc # "idle") ~> (thr[t].pc = "idle")

\* a finalize waits for the map while another thread holds the map for
\* reading and a key's lock for writing
C20_Witness ==
    \E t, u \in Threads :
        /\ thr[t].pc = "flushlock"
        /\ u \in mapReaders
        /\ \E k \in Keys : gjHolder[k] = u

====
